---- MODULE Spec2Model ----
(***************************************************************************)
(* Model of src/src/context/ast/pythonParser.py: the recursive context     *)
(* extractor (parse_file / _extract_definitions_from_tree), its path-keyed *)
(* parse_cache, the pruner, the text renderer and the __main__ driver.     *)
(*                                                                         *)
(* Python values that may be None are records with a "type" field, so that *)
(* None, strings and literal values can be compared with each other.       *)
(* A source text is a sequence of physical lines (split at "\n"); each     *)
(* line holds one top-level node, a line the parser rejects, or nothing.   *)
(***************************************************************************)
EXTENDS Naturals, Sequences, FiniteSets

VARIABLES
    fs,            \* storage: absolute path -> source text or NoFile
    argv,          \* command line: [given, file, mode]
    stdin,         \* the entrypoint's text (code_content)
    parse_cache,   \* the module-level dict parse_cache
    stack,         \* active parse_file calls, innermost last
    pc,            \* position of the __main__ block
    main_context,  \* value returned by the outermost parse_file
    stdout,        \* what __main__ prints on the primary channel
    reads,         \* number of open()/read() of each path in this run
    returned,      \* the values parse_file has returned for each path, in order
    overflowed     \* a RecursionError has been raised in this run

vars == <<fs, argv, stdin, parse_cache, stack, pc, main_context, stdout,
          reads, returned, overflowed>>

\* Interpreter recursion limit, scaled down (sys.getrecursionlimit()).
MaxDepth == 4

-----------------------------------------------------------------------------
(* Python values *)

None == [type |-> "NoneType"]
PyStr(s) == [type |-> "str", s |-> s]
PyVal(t) == [type |-> t]
NoKey == [type |-> "absent"]

\* isinstance(val, cls): bool is a subclass of int.
isinstance(val, cls) ==
    \/ val.type = cls
    \/ val.type = "bool" /\ cls = "int"

\* str.startswith
startswith(name, ch) == Len(name) > 0 /\ name[1] = ch

Min(S) == CHOOSE m \in S : \A n \in S : m <= n

-----------------------------------------------------------------------------
(* Syntax trees of the fixtures *)

Expr(text, value) == [text |-> text, value |-> value]
NotLiteral == [type |-> "not-a-literal"]

TName(id) == [k |-> "Name", id |-> id]
TSelfAttr == [k |-> "Attribute", base |-> "self"]
TOtherAttr == [k |-> "Attribute", base |-> "cfg"]

Assign(targets, value) ==
    [k |-> "Assign", targets |-> targets, value |-> value, src |-> "assign"]
ReturnStmt(value) == [k |-> "Return", value |-> value]
IfStmt(body) == [k |-> "If", body |-> body]
FunctionDef(name, returns, body) ==
    [k |-> "FunctionDef", name |-> name, args |-> "", decorator_list |-> <<>>,
     returns |-> returns, body |-> body, doc |-> None]
ClassDef(name, body) ==
    [k |-> "ClassDef", name |-> name, bases |-> <<>>, decorator_list |-> <<>>,
     body |-> body, doc |-> None]
Import(src) == [k |-> "Import", src |-> src]
ImportFrom(module, names, src) ==
    [k |-> "ImportFrom", module |-> module, names |-> names, src |-> src]
Dotted(parts) == [type |-> "str", parts |-> parts]

Line(node) == [node |-> node, ff |-> FALSE]
LineFF(node) == [node |-> node, ff |-> TRUE]
Bad == [k |-> "Bad"]
Blank == [k |-> "Blank"]

n_f == <<"f">>
n_g == <<"_", "g">>
n_h == <<"h">>
n_x == <<"x">>
n_y == <<"_", "y">>
n_K == <<"K">>
n_z == <<"z">>

e_str == Expr("'hi'", PyStr("hi"))
e_int == Expr("7", PyVal("int"))
e_bool == Expr("True", PyVal("bool"))
e_list == Expr("[1]", PyVal("list"))
e_dict == Expr("{}", PyVal("dict"))
e_float == Expr("1.5", PyVal("float"))
e_none == Expr("None", None)
e_call == Expr("g()", NotLiteral)
e_one == Expr("1", PyVal("int"))
e_two == Expr("2", PyVal("int"))

d_f == FunctionDef(n_f, None, <<ReturnStmt(e_str)>>)
d_g == FunctionDef(n_g, None, <<ReturnStmt(e_int)>>)
d_h == FunctionDef(n_h, None, <<ReturnStmt(e_bool)>>)
d_x == Assign(<<TName(n_x)>>, e_one)
d_y == Assign(<<TName(n_y)>>, e_two)
d_K ==
    ClassDef(n_K,
        <<Assign(<<TName(n_x)>>, e_one),
          FunctionDef(<<"__init__">>, None,
              <<Assign(<<TSelfAttr>>, e_one), ReturnStmt(e_none)>>),
          FunctionDef(<<"m">>, None, <<ReturnStmt(e_bool)>>)>>)

p_a == <<"a">>
p_b == <<"b">>
p_c == <<"c">>
p_main == <<"main">>
Paths == {p_a, p_b, p_c, p_main}

\* A module of declarations: public and private names, no imports.
SrcLib == <<Line(d_f), Line(d_g), Line(d_x), Line(d_y), Line(d_K)>>

\* A module that imports c.
SrcUsesC ==
    <<Line(ImportFrom(Dotted(p_c), <<n_f>>, "from c import f")),
      Line(d_x), Line(d_h)>>

\* One unparseable line; imports a.
SrcRepairA ==
    <<Line(ImportFrom(Dotted(p_a), <<n_x>>, "from a import x")),
      Line(Bad), Line(d_x)>>

\* One unparseable line, a form feed on a later line.
SrcRepair == <<Line(d_x), Line(Bad), LineFF(d_f)>>

\* One unparseable line, a form feed on an earlier line.
SrcFormFeed == <<LineFF(d_x), Line(Bad), Line(d_f)>>

\* Two unparseable lines.
SrcBroken == <<Line(d_x), Line(Bad), Line(Bad)>>

\* Entrypoint: imports a twice with different names, b in between.
SrcEntry ==
    <<Line(Import("import os")),
      Line(ImportFrom(Dotted(p_a), <<n_f, n_z>>, "from a import f, z")),
      Line(d_x),
      Line(ImportFrom(Dotted(p_b), <<n_g>>, "from b import _g")),
      Line(ImportFrom(Dotted(p_a), <<n_g, n_x>>, "from a import _g, x")),
      Line(ImportFrom(None, <<n_z>>, "from . import z")),
      Line(Assign(<<TOtherAttr, TName(n_y)>>, e_two)),
      Line(d_f), Line(d_K)>>

\* Entrypoint with one unparseable line that imports c.
SrcEntryRepair ==
    <<Line(ImportFrom(Dotted(p_c), <<n_x>>, "from c import x")),
      Line(Bad), Line(d_y)>>

\* A text that imports the entrypoint's own module.
SrcSelf ==
    <<Line(ImportFrom(Dotted(p_main), <<n_x>>, "from main import x")),
      Line(d_x)>>

\* Entrypoint of functions, one per way of returning.
SrcFuncs ==
    <<Line(FunctionDef(<<"a1">>, Expr("str", NotLiteral), <<ReturnStmt(e_int)>>)),
      Line(FunctionDef(<<"a2">>, None, <<ReturnStmt(None)>>)),
      Line(FunctionDef(<<"a3">>, None, <<ReturnStmt(e_str)>>)),
      Line(FunctionDef(<<"a4">>, None, <<ReturnStmt(e_int)>>)),
      Line(FunctionDef(<<"a5">>, None, <<ReturnStmt(e_bool)>>)),
      Line(FunctionDef(<<"a6">>, None, <<ReturnStmt(e_list)>>)),
      Line(FunctionDef(<<"a7">>, None, <<ReturnStmt(e_dict), ReturnStmt(None)>>)),
      Line(FunctionDef(<<"a8">>, None, <<ReturnStmt(e_float)>>)),
      Line(FunctionDef(<<"a9">>, None, <<ReturnStmt(e_call)>>)),
      Line(FunctionDef(<<"b1">>, None, <<IfStmt(<<ReturnStmt(e_int)>>)>>)),
      Line(FunctionDef(<<"b2">>, None, <<ReturnStmt(e_none)>>))>>

NoFile == <<[node |-> [k |-> "NoFile"], ff |-> FALSE]>>
DiskSources == {SrcLib, SrcUsesC, SrcRepairA, SrcRepair, SrcFormFeed, SrcBroken}
EntrySources == {SrcEntry, SrcEntryRepair, SrcFuncs, SrcBroken, SrcRepair, SrcSelf}

\* What storage may hold at the entrypoint's own path: the text on stdin need
\* not be the stored one.
EntryDiskSources == {SrcLib, SrcSelf}
Modes == {"full", "intelligent", "pruned"}

-----------------------------------------------------------------------------
(* The syntax adapter: ast.parse, and the line handling of the retry *)

\* ast.parse(content): a SyntaxError carrying the 1-based number of the first
\* rejected physical line, or the module's body in source order.
ast_parse(content) ==
    LET bad == {i \in 1..Len(content) : content[i].node.k = "Bad"}
        stmts == SelectSeq(content, LAMBDA ln : ln.node.k # "Blank")
    IN  IF bad # {}
        THEN [ok |-> FALSE, lineno |-> Min(bad)]
        ELSE [ok |-> TRUE, body |-> [i \in 1..Len(stmts) |-> stmts[i].node]]

\* str.splitlines() also breaks at a form feed (and at the other Unicode line
\* boundaries), which the parser does not count as the end of a line: a line
\* ending in one yields its text and then an empty piece.
RECURSIVE splitlines(_)
splitlines(content) ==
    IF content = <<>> THEN <<>>
    ELSE LET ln == Head(content)
         IN  (IF ln.ff THEN <<Line(ln.node), Line(Blank)>> ELSE <<ln>>)
             \o splitlines(Tail(content))

\* del lines[n - 1]
del_line(lines, n) ==
    [i \in 1..(Len(lines) - 1) |-> IF i < n THEN lines[i] ELSE lines[i + 1]]

\* Lines 131-133: the text the retry parses.
resilient_content(content, lineno) ==
    LET lines == splitlines(content)
    IN  IF 1 <= lineno /\ lineno <= Len(lines)
        THEN del_line(lines, lineno)
        ELSE lines

-----------------------------------------------------------------------------
(* Describers *)

get_node_repr(node) == node.text

\* ast.literal_eval, None when the node is no literal (or the literal None).
_get_literal_value(node) ==
    IF node.value = NotLiteral THEN None ELSE node.value

\* Lines 32-39: the last return-with-value among the body's own statements.
last_return(body) ==
    LET idx == {i \in 1..Len(body) :
                    body[i].k = "Return" /\ body[i].value # None}
    IN  IF idx = {} THEN None
        ELSE body[CHOOSE i \in idx : \A j \in idx : j <= i].value

is_self_assign(item) ==
    /\ item.k = "Assign"
    /\ \E t \in 1..Len(item.targets) :
          item.targets[t].k = "Attribute" /\ item.targets[t].base = "self"

parse_function(node) ==
    LET ret == last_return(node.body)
        inits == SelectSeq(node.body, is_self_assign)
    IN  [name |-> node.name,
         args |-> node.args,
         decorators |-> node.decorator_list,
         returns_hint |-> IF node.returns # None
                          THEN PyStr(get_node_repr(node.returns)) ELSE None,
         return_expression |-> IF ret # None
                               THEN PyStr(get_node_repr(ret)) ELSE None,
         return_literal_obj |-> IF ret # None
                                THEN _get_literal_value(ret) ELSE None,
         docstring |-> node.doc,
         init_assignments |-> IF node.name = <<"__init__">>
                              THEN [i \in 1..Len(inits) |-> inits[i].src]
                              ELSE <<>>]

\* dict[key] = value, insertion order kept.
dict_set(d, key, value) ==
    IF \E i \in 1..Len(d) : d[i].name = key
    THEN [i \in 1..Len(d) |->
            IF d[i].name = key THEN [name |-> key, value |-> value] ELSE d[i]]
    ELSE Append(d, [name |-> key, value |-> value])

RECURSIVE assign_targets(_, _, _, _)
assign_targets(d, targets, value, i) ==
    IF i > Len(targets) THEN d
    ELSE assign_targets(
            IF targets[i].k = "Name" THEN dict_set(d, targets[i].id, value) ELSE d,
            targets, value, i + 1)

RECURSIVE class_variables(_, _, _)
class_variables(d, body, i) ==
    IF i > Len(body) THEN d
    ELSE class_variables(
            IF body[i].k = "Assign"
            THEN assign_targets(d, body[i].targets, get_node_repr(body[i].value), 1)
            ELSE d,
            body, i + 1)

parse_class(node) ==
    LET fns == SelectSeq(node.body, LAMBDA it : it.k = "FunctionDef")
    IN  [name |-> node.name,
         bases |-> node.bases,
         decorators |-> node.decorator_list,
         docstring |-> node.doc,
         methods |-> [i \in 1..Len(fns) |-> parse_function(fns[i])],
         variables |-> class_variables(<<>>, node.body, 1)]

-----------------------------------------------------------------------------
(* Contexts and the pruner *)

\* Line 119.
new_definitions(abs_filepath) ==
    [imports |-> <<>>, variables |-> <<>>, functions |-> <<>>, classes |-> <<>>,
     module_name |-> abs_filepath[Len(abs_filepath)], error |-> NoKey]

has_error(context) == context.error # NoKey

_prune_context_by_prefix(full_context, imported_names, mode) ==
    IF mode = "full" THEN full_context
    ELSE LET keep(n) == ~startswith(n, "_")
         IN  [module_name |-> full_context.module_name,
              imports |-> <<>>,
              variables |-> SelectSeq(full_context.variables, LAMBDA v : keep(v.name)),
              functions |-> SelectSeq(full_context.functions, LAMBDA f : keep(f.name)),
              classes |-> SelectSeq(full_context.classes, LAMBDA c : keep(c.name)),
              error |-> NoKey]

_prune_context_inverted(full_context, imported_names, mode) ==
    IF mode = "full" THEN full_context
    ELSE LET keep(n) ==
                IF mode = "intelligent" THEN startswith(n, "_")
                ELSE IF mode = "pruned" THEN n \in imported_names
                ELSE FALSE
         IN  [module_name |-> full_context.module_name,
              imports |-> <<>>,
              variables |-> SelectSeq(full_context.variables, LAMBDA v : keep(v.name)),
              functions |-> SelectSeq(full_context.functions, LAMBDA f : keep(f.name)),
              classes |-> SelectSeq(full_context.classes, LAMBDA c : keep(c.name)),
              error |-> NoKey]

_prune_context(full_context, imported_names, mode) ==
    IF mode = "full" THEN full_context
    ELSE LET keep(n) ==
                IF mode = "intelligent" THEN ~startswith(n, "_")
                ELSE IF mode = "pruned" THEN n \in imported_names
                ELSE FALSE
         IN  [module_name |-> full_context.module_name,
              imports |-> <<>>,
              variables |-> SelectSeq(full_context.variables, LAMBDA v : keep(v.name)),
              functions |-> SelectSeq(full_context.functions, LAMBDA f : keep(f.name)),
              classes |-> SelectSeq(full_context.classes, LAMBDA c : keep(c.name)),
              error |-> NoKey]

-----------------------------------------------------------------------------
(* The renderer: a text is the sequence of its lines *)

\* Lines 155-166 and 184-195: the annotation of a signature line.
return_type_str(func, is_method) ==
    IF func.returns_hint # None THEN <<"->", func.returns_hint.s>>
    ELSE IF (is_method /\ func.name = <<"__init__">>)
            \/ func.return_expression = None THEN <<"->", "None">>
    ELSE IF func.return_literal_obj # None THEN
        LET val == func.return_literal_obj
        IN  IF isinstance(val, "str") THEN <<"->", "str">>
            ELSE IF isinstance(val, "int") THEN <<"->", "int">>
            ELSE IF isinstance(val, "bool") THEN <<"->", "bool">>
            ELSE IF isinstance(val, "list") THEN <<"->", "list">>
            ELSE IF isinstance(val, "dict") THEN <<"->", "dict">>
            ELSE <<>>
    ELSE <<>>

\* Lines 153-172 (indent 0) and 182-205 (indent 1).
format_function(func, is_method) ==
    LET ind == IF is_method THEN 1 ELSE 0
    IN  [i \in 1..Len(func.decorators) |->
            [l |-> "@", indent |-> ind, text |-> func.decorators[i]]]
        \o <<[l |-> "def", indent |-> ind, name |-> func.name, args |-> func.args,
              rt |-> return_type_str(func, is_method)]>>
        \o (IF func.docstring # None
            THEN <<[l |-> "doc", indent |-> ind + 1, text |-> func.docstring.s]>>
            ELSE <<>>)
        \o (IF is_method
            THEN [i \in 1..Len(func.init_assignments) |->
                    [l |-> "stmt", indent |-> 2, text |-> func.init_assignments[i]]]
            ELSE <<>>)
        \o <<[l |-> "# some code lines", indent |-> ind + 1]>>
        \o (IF func.return_expression # None
               /\ (~is_method \/ func.name # <<"__init__">>
                   \/ func.init_assignments = <<>>)
            THEN <<[l |-> "return", indent |-> ind + 1,
                    text |-> func.return_expression.s]>>
            ELSE <<>>)
        \o <<[l |-> ""]>>

RECURSIVE flatten(_)
flatten(texts) ==
    IF texts = <<>> THEN <<>> ELSE Head(texts) \o flatten(Tail(texts))

\* Lines 174-206.
format_class(cls) ==
    [i \in 1..Len(cls.decorators) |->
        [l |-> "@", indent |-> 0, text |-> cls.decorators[i]]]
    \o <<[l |-> "class", name |-> cls.name, bases |-> cls.bases]>>
    \o (IF cls.docstring # None
        THEN <<[l |-> "doc", indent |-> 1, text |-> cls.docstring.s]>> ELSE <<>>)
    \o <<[l |-> ""]>>
    \o [i \in 1..Len(cls.variables) |->
            [l |-> "=", indent |-> 1, name |-> cls.variables[i].name,
             value |-> cls.variables[i].value]]
    \o (IF cls.variables # <<>> THEN <<[l |-> ""]>> ELSE <<>>)
    \o flatten([i \in 1..Len(cls.methods) |-> format_function(cls.methods[i], TRUE)])
    \o <<[l |-> ""]>>

\* Lines 142-207.
format_context_as_text(context_dict) ==
    IF has_error(context_dict) THEN <<[l |-> "error", text |-> context_dict.error.s]>>
    ELSE
        <<[l |-> "title", text |-> context_dict.module_name],
          [l |-> "rule", text |-> context_dict.module_name]>>
        \o (IF context_dict.imports # <<>>
            THEN [i \in 1..Len(context_dict.imports) |->
                    [l |-> "import", text |-> context_dict.imports[i].import]]
                 \o <<[l |-> ""]>>
            ELSE <<>>)
        \o (IF context_dict.variables # <<>>
            THEN [i \in 1..Len(context_dict.variables) |->
                    [l |-> "=", indent |-> 0, name |-> context_dict.variables[i].name,
                     value |-> context_dict.variables[i].value]]
                 \o <<[l |-> ""]>>
            ELSE <<>>)
        \o flatten([i \in 1..Len(context_dict.functions) |->
                        format_function(context_dict.functions[i], FALSE)])
        \o flatten([i \in 1..Len(context_dict.classes) |->
                        format_class(context_dict.classes[i])])

\* Lines 227-231: the loop over the entrypoint's import records.
RECURSIVE imported_files_text_all(_, _, _)
imported_files_text_all(imports, i, formatted_imports) ==
    IF i > Len(imports) THEN <<>>
    ELSE IF imports[i].resolved_context # None
         THEN <<format_context_as_text(imports[i].resolved_context)>>
              \o imported_files_text_all(imports, i + 1, formatted_imports)
         ELSE imported_files_text_all(imports, i + 1, formatted_imports)

RECURSIVE imported_files_text(_, _, _)
imported_files_text(imports, i, formatted_imports) ==
    IF i > Len(imports) THEN <<>>
    ELSE LET imp == imports[i]
         IN  IF imp.resolved_context # None /\ imp.module \notin formatted_imports
             THEN <<format_context_as_text(imp.resolved_context)>>
                  \o imported_files_text(imports, i + 1,
                                         formatted_imports \cup {imp.module})
             ELSE imported_files_text(imports, i + 1, formatted_imports)

Banner == <<<<[l |-> ""], [l |-> "Imported files content"]>>,
            <<[l |-> "======================"]>>>>

\* Lines 223-236: the list of texts that is joined and printed.
main_output(context, file) ==
    IF context = None THEN <<<<[l |-> "Error: Could not parse file", text |-> file]>>>>
    ELSE IF has_error(context)
    THEN <<<<[l |-> "Error parsing file", text |-> context.error.s]>>>>
    ELSE LET texts == imported_files_text(context.imports, 1, {})
         IN  <<format_context_as_text(context)>>
             \o (IF texts # <<>> THEN Banner \o texts ELSE <<>>)

-----------------------------------------------------------------------------
(* parse_file and _extract_definitions_from_tree *)

EmptyCache == [p \in {} |-> None]

\* Line 116.
cache_hit_never(cache, abs_filepath) == FALSE

cache_hit(cache, abs_filepath) == abs_filepath \in DOMAIN cache

\* Line 139.
cache_store_public(cache, abs_filepath, definitions) ==
    [p \in DOMAIN cache \cup {abs_filepath} |->
        IF p = abs_filepath
        THEN _prune_context(definitions, {}, "intelligent")
        ELSE cache[p]]

cache_store(cache, abs_filepath, definitions) ==
    [p \in DOMAIN cache \cup {abs_filepath} |->
        IF p = abs_filepath THEN definitions ELSE cache[p]]

\* Lines 117-138: a call that misses stores nothing before its extraction ends.
cache_at_entry_marks(cache, abs_filepath) ==
    [p \in DOMAIN cache \cup {abs_filepath} |->
        IF p = abs_filepath
        THEN [imports |-> <<>>, variables |-> <<>>, functions |-> <<>>,
              classes |-> <<>>, module_name |-> abs_filepath[Len(abs_filepath)],
              error |-> NoKey]
        ELSE cache[p]]

cache_at_entry(cache, abs_filepath) == cache

\* os.path.exists
exists(abs_filepath) == abs_filepath \in DOMAIN fs /\ fs[abs_filepath] # NoFile

\* os.path.dirname
dirname(abs_filepath) == SubSeq(abs_filepath, 1, Len(abs_filepath) - 1)

\* Lines 102-103: the dotted name, one path component per part, under base_path.
module_path(base_path, module) == base_path \o module.parts

SyntaxErrorText == PyStr("File contains multiple errors. Last error: invalid syntax")
RecursionErrorText ==
    PyStr("File contains multiple errors. Last error: maximum recursion depth exceeded")

\* Lines 125-137 up to the call of the extractor: the body to extract and
\* whether the call is inside the handler's inner try, or the error Context.
parse_attempt(abs_filepath, content) ==
    LET first == ast_parse(content)
    IN  IF first.ok THEN [kind |-> "extract", body |-> first.body, retry |-> FALSE]
        ELSE LET second == ast_parse(resilient_content(content, first.lineno))
             IN  IF second.ok
                 THEN [kind |-> "extract", body |-> second.body, retry |-> TRUE]
                 ELSE [kind |-> "error",
                       definitions |-> [new_definitions(abs_filepath)
                                            EXCEPT !.error = SyntaxErrorText]]

new_frame(abs_filepath, attempt) ==
    [abs_filepath |-> abs_filepath,
     base_path |-> dirname(abs_filepath),
     body |-> attempt.body,
     i |-> 1,
     definitions |-> new_definitions(abs_filepath),
     retry |-> attempt.retry]

\* Line 108.
imported_names(node) == {node.names[j] : j \in 1..Len(node.names)}

\* Lines 99-111: the record appended for an import statement, given what
\* parse_file returned (None for a statement that makes no call).
import_data(node, full_resolved_context, mode) ==
    [import |-> node.src,
     module |-> IF node.k = "ImportFrom" /\ node.module # None
                THEN node.module ELSE None,
     resolved_context |->
        IF full_resolved_context # None
        THEN _prune_context(full_resolved_context, imported_names(node), mode)
        ELSE None]

calls_parse_file(node) == node.k = "ImportFrom" /\ node.module # None

\* Lines 90-99 and 111: a top-level statement that resolves nothing.
extract_node(definitions, node, mode) ==
    IF node.k = "Assign"
    THEN [definitions EXCEPT
            !.variables = assign_targets(@, node.targets, get_node_repr(node.value), 1)]
    ELSE IF node.k = "FunctionDef"
    THEN [definitions EXCEPT !.functions = Append(@, parse_function(node))]
    ELSE IF node.k = "ClassDef"
    THEN [definitions EXCEPT !.classes = Append(@, parse_class(node))]
    ELSE IF node.k \in {"Import", "ImportFrom"}
    THEN [definitions EXCEPT !.imports = Append(@, import_data(node, None, mode))]
    ELSE definitions

\* Lines 213-214.
parsing_mode ==
    IF argv.mode \in {"pruned", "intelligent", "full"} THEN argv.mode
    ELSE "intelligent"

Top == stack[Len(stack)]
TopNode == Top.body[Top.i]
Extracting == pc = "parse" /\ stack # <<>> /\ Top.i <= Len(Top.body)

\* The caller's frame after parse_file has returned `value` to line 105.
resume(frame, value) ==
    [frame EXCEPT
        !.definitions.imports =
            Append(@, import_data(frame.body[frame.i], value, parsing_mode)),
        !.i = @ + 1]

note_return(abs_filepath, value) ==
    [returned EXCEPT ![abs_filepath] = Append(@, value)]

\* Lines 211-221 with an entrypoint whose text parses, at once or repaired.
MainEnter ==
    /\ pc = "start" /\ argv.given
    /\ LET attempt == parse_attempt(argv.file, stdin)
       IN  /\ attempt.kind = "extract"
           /\ stack' = <<new_frame(argv.file, attempt)>>
    /\ parse_cache' = cache_at_entry(EmptyCache, argv.file)
    /\ pc' = "parse"
    /\ UNCHANGED <<fs, argv, stdin, main_context, stdout, reads, returned, overflowed>>

\* Lines 211-221 with an entrypoint that fails both parses.
MainUnparseable ==
    /\ pc = "start" /\ argv.given
    /\ LET attempt == parse_attempt(argv.file, stdin)
       IN  /\ attempt.kind = "error"
           /\ parse_cache' = cache_store(EmptyCache, argv.file, attempt.definitions)
           /\ main_context' = attempt.definitions
           /\ returned' = note_return(argv.file, attempt.definitions)
    /\ pc' = "main"
    /\ UNCHANGED <<fs, argv, stdin, stack, stdout, reads, overflowed>>

\* Line 237.
MainNoArgs ==
    /\ pc = "start" /\ ~argv.given
    /\ stdout' = <<<<[l |-> "Error: No file path provided."]>>>>
    /\ pc' = "done"
    /\ UNCHANGED <<fs, argv, stdin, parse_cache, stack, main_context, reads,
                   returned, overflowed>>

\* Lines 89-99, 111: one statement that makes no call to parse_file.
ExtractStatement ==
    /\ Extracting /\ ~calls_parse_file(TopNode)
    /\ stack' = [stack EXCEPT ![Len(stack)] =
                    [@ EXCEPT !.definitions = extract_node(@, TopNode, parsing_mode),
                              !.i = @ + 1]]
    /\ UNCHANGED <<fs, argv, stdin, parse_cache, pc, main_context, stdout, reads,
                   returned, overflowed>>

\* Lines 100-111 with line 116: the target is in the cache.
ImportCached ==
    /\ Extracting /\ calls_parse_file(TopNode)
    /\ LET path == module_path(Top.base_path, TopNode.module)
       IN  /\ cache_hit(parse_cache, path)
           /\ stack' = [stack EXCEPT ![Len(stack)] = resume(@, parse_cache[path])]
           /\ returned' = note_return(path, parse_cache[path])
    /\ UNCHANGED <<fs, argv, stdin, parse_cache, pc, main_context, stdout, reads,
                   overflowed>>

\* Lines 100-111 with line 122: no file at the target path.
ImportMissing ==
    /\ Extracting /\ calls_parse_file(TopNode)
    /\ LET path == module_path(Top.base_path, TopNode.module)
       IN  /\ ~cache_hit(parse_cache, path)
           /\ ~exists(path)
           /\ stack' = [stack EXCEPT ![Len(stack)] = resume(@, None)]
           /\ returned' = note_return(path, None)
    /\ UNCHANGED <<fs, argv, stdin, parse_cache, pc, main_context, stdout, reads,
                   overflowed>>

\* Lines 100-111 with 123-140: the target is read and fails both parses.
ImportUnparseable ==
    /\ Extracting /\ calls_parse_file(TopNode)
    /\ Len(stack) < MaxDepth
    /\ LET path == module_path(Top.base_path, TopNode.module)
       IN  /\ ~cache_hit(parse_cache, path)
           /\ exists(path)
           /\ LET attempt == parse_attempt(path, fs[path])
              IN  /\ attempt.kind = "error"
                  /\ parse_cache' = cache_store(parse_cache, path, attempt.definitions)
                  /\ stack' = [stack EXCEPT ![Len(stack)] =
                                  resume(@, attempt.definitions)]
                  /\ returned' = note_return(path, attempt.definitions)
           /\ reads' = [reads EXCEPT ![path] = @ + 1]
    /\ UNCHANGED <<fs, argv, stdin, pc, main_context, stdout, overflowed>>

\* Lines 100-105 with 123-127 or 134-135: the target is read, parses, and
\* its extraction begins in a new call.
ImportDescend ==
    /\ Extracting /\ calls_parse_file(TopNode)
    /\ Len(stack) < MaxDepth
    /\ LET path == module_path(Top.base_path, TopNode.module)
       IN  /\ ~cache_hit(parse_cache, path)
           /\ exists(path)
           /\ LET attempt == parse_attempt(path, fs[path])
              IN  /\ attempt.kind = "extract"
                  /\ stack' = Append(stack, new_frame(path, attempt))
           /\ reads' = [reads EXCEPT ![path] = @ + 1]
           /\ parse_cache' = cache_at_entry(parse_cache, path)
    /\ UNCHANGED <<fs, argv, stdin, pc, main_context, stdout, returned, overflowed>>

\* The call of line 105 exceeds the interpreter's recursion limit.
ImportOverflow ==
    /\ Extracting /\ calls_parse_file(TopNode)
    /\ Len(stack) >= MaxDepth
    /\ LET path == module_path(Top.base_path, TopNode.module)
       IN  ~cache_hit(parse_cache, path) /\ exists(path)
    /\ pc' = "raise"
    /\ overflowed' = TRUE
    /\ UNCHANGED <<fs, argv, stdin, parse_cache, stack, main_context, stdout,
                   reads, returned>>

\* What a parse_file call does once its frame holds the final definitions:
\* line 139-140, and the caller continues at line 107 (or __main__ at 223).
finish(definitions) ==
    /\ parse_cache' = cache_store(parse_cache, Top.abs_filepath, definitions)
    /\ returned' = note_return(Top.abs_filepath, definitions)
    /\ IF Len(stack) = 1
       THEN /\ stack' = <<>>
            /\ main_context' = definitions
            /\ pc' = "main"
       ELSE /\ stack' = [SubSeq(stack, 1, Len(stack) - 1)
                            EXCEPT ![Len(stack) - 1] = resume(@, definitions)]
            /\ main_context' = main_context
            /\ pc' = "parse"

\* Lines 139-140 after the extractor has walked the whole body.
ParseFileReturn ==
    /\ pc = "parse" /\ stack # <<>> /\ Top.i > Len(Top.body)
    /\ finish(Top.definitions)
    /\ UNCHANGED <<fs, argv, stdin, stdout, reads, overflowed>>

\* A RecursionError leaves a call whose extractor runs in the outer try
\* (line 127: only SyntaxError is handled there).
Propagate ==
    /\ pc = "raise" /\ stack # <<>> /\ ~Top.retry
    /\ stack' = SubSeq(stack, 1, Len(stack) - 1)
    /\ UNCHANGED <<fs, argv, stdin, parse_cache, pc, main_context, stdout, reads,
                   returned, overflowed>>

\* Lines 136-140: the handler's inner try catches any exception raised while
\* the repaired text is extracted.
Catch ==
    /\ pc = "raise" /\ stack # <<>> /\ Top.retry
    /\ finish([Top.definitions EXCEPT !.error = RecursionErrorText])
    /\ UNCHANGED <<fs, argv, stdin, stdout, reads, overflowed>>

\* The RecursionError leaves __main__: the process ends with a traceback.
Crash ==
    /\ pc = "raise" /\ stack = <<>>
    /\ pc' = "crashed"
    /\ UNCHANGED <<fs, argv, stdin, parse_cache, stack, main_context, stdout,
                   reads, returned, overflowed>>

\* Lines 223-236.
MainPrint ==
    /\ pc = "main"
    /\ stdout' = main_output(main_context, argv.file)
    /\ pc' = "done"
    /\ UNCHANGED <<fs, argv, stdin, parse_cache, stack, main_context, reads,
                   returned, overflowed>>

Init ==
    /\ \/ /\ argv \in [given : {TRUE}, file : {p_main}, mode : Modes]
          /\ fs \in {f \in [Paths -> DiskSources \cup EntryDiskSources \cup {NoFile}] :
                        /\ f[p_main] \in EntryDiskSources \cup {NoFile}
                        /\ \A p \in Paths \ {p_main} : f[p] \in DiskSources \cup {NoFile}}
          /\ stdin \in EntrySources
       \/ /\ argv \in {[given |-> FALSE, file |-> p_main, mode |-> "intelligent"],
                       [given |-> TRUE, file |-> p_main, mode |-> "verbose"]}
          /\ fs = [p \in Paths |-> SrcLib]
          /\ stdin = SrcEntry
    /\ parse_cache = EmptyCache
    /\ stack = <<>>
    /\ pc = "start"
    /\ main_context = None
    /\ stdout = <<>>
    /\ reads = [p \in Paths |-> 0]
    /\ returned = [p \in Paths |-> <<>>]
    /\ overflowed = FALSE

Next ==
    \/ MainEnter
    \/ MainUnparseable
    \/ MainNoArgs
    \/ ExtractStatement
    \/ ImportCached
    \/ ImportMissing
    \/ ImportUnparseable
    \/ ImportDescend
    \/ ImportOverflow
    \/ ParseFileReturn
    \/ Propagate
    \/ Catch
    \/ Crash
    \/ MainPrint

Spec == Init /\ [][Next]_vars

-----------------------------------------------------------------------------
(* Reference notions the properties are stated with *)

Range(seq) == {seq[i] : i \in 1..Len(seq)}

\* The text of the module at a path, as the run sees it: stdin for the
\* entrypoint.
SourceOf(path) == IF path = argv.file THEN stdin ELSE fs[path]

\* The text a cached Context was extracted from: the entrypoint's own call
\* stores last, any call made by an import reads storage.
CachedSource(path) ==
    IF path = argv.file /\ pc \in {"main", "done"} THEN stdin ELSE fs[path]

BadLines(content) == {i \in 1..Len(content) : content[i].node.k = "Bad"}

\* The text without its rejected lines.
GoodLines(content) == SelectSeq(content, LAMBDA ln : ln.node.k # "Bad")

\* The top-level statements parse_file extracts: none when both parses fail.
ExtractedBody(content) ==
    LET attempt == parse_attempt(argv.file, content)
    IN  IF attempt.kind = "extract" THEN attempt.body ELSE <<>>

Unrecoverable(content) == parse_attempt(argv.file, content).kind = "error"

\* The declarations of a sequence of statements, imports left aside.
RECURSIVE Declarations(_, _, _)
Declarations(definitions, body, i) ==
    IF i > Len(body) THEN definitions
    ELSE Declarations(
            IF body[i].k \in {"Import", "ImportFrom"} THEN definitions
            ELSE extract_node(definitions, body[i], "full"),
            body, i + 1)

SameDeclarations(c, d) ==
    /\ c.variables = d.variables
    /\ c.functions = d.functions
    /\ c.classes = d.classes

\* The members of the file stored at a path.
Members(path) ==
    Declarations(new_definitions(path), ExtractedBody(fs[path]), 1)

\* The declarations of the text a cached Context was extracted from.
CachedMembers(path) ==
    Declarations(new_definitions(path), ExtractedBody(CachedSource(path)), 1)

ImportNodes(body) == SelectSeq(body, LAMBDA n : n.k \in {"Import", "ImportFrom"})

\* The paths that the from-imports of a text resolve to.
ResolvedPaths(content, base_path) ==
    {module_path(base_path, n.module) :
        n \in {m \in Range(ExtractedBody(content)) : calls_parse_file(m)}}

\* The existing files among them.
TargetsIn(content, base_path) ==
    ResolvedPaths(content, base_path) \cap {q \in Paths : exists(q)}

\* The import graph over modules: the entrypoint is the module given on stdin,
\* stored or not, so an entrypoint that imports its own module is a cycle.
Targets(path) ==
    ResolvedPaths(SourceOf(path), dirname(path))
    \cap {q \in Paths : exists(q) \/ (argv.given /\ q = argv.file)}

RECURSIVE ReachN(_, _)
ReachN(S, n) ==
    IF n = 0 THEN S
    ELSE ReachN(S \cup UNION {Targets(q) : q \in S}, n - 1)

Reachable == ReachN(Targets(argv.file), Cardinality(Paths))
OnCycle(path) == path \in ReachN(Targets(path), Cardinality(Paths))
ReachableCycle == argv.given /\ \E path \in Reachable : OnCycle(path)

\* The import graph over the stored files alone.
FileTargets(path) == TargetsIn(fs[path], dirname(path))

RECURSIVE FileReachN(_, _)
FileReachN(S, n) ==
    IF n = 0 THEN S
    ELSE FileReachN(S \cup UNION {FileTargets(q) : q \in S}, n - 1)

\* The from-imports of existing files form a cycle reachable from the entrypoint.
ReachableFileCycle ==
    /\ argv.given
    /\ \E path \in FileReachN(TargetsIn(stdin, dirname(argv.file)), Cardinality(Paths)) :
          path \in FileReachN(FileTargets(path), Cardinality(Paths))

\* A call for the path is on the stack. The entrypoint's call works on stdin:
\* it is not a call for the file stored at its path when that file has another
\* text.
Active(path) ==
    \E d \in 1..Len(stack) :
        /\ stack[d].abs_filepath = path
        /\ ~(d = 1 /\ exists(path) /\ fs[path] # stdin)

\* Every Context under construction or stored.
Contexts ==
    {stack[d].definitions : d \in 1..Len(stack)}
    \cup {parse_cache[path] : path \in DOMAIN parse_cache}

-----------------------------------------------------------------------------
(* C1 *)

\* C1: within one run over an import graph without a cycle, every path is read
\* from storage at most once, however many from-imports resolve to it, and all
\* parse_file calls for one path return the same value.
C1_ReadOnceSameContext ==
    ~ReachableCycle =>
        /\ \A path \in Paths : reads[path] <= 1
        /\ \A path \in DOMAIN returned :
              \A i, j \in 1..Len(returned[path]) :
                  returned[path][i] = returned[path][j]

\* A diamond: a and b both import c, which has been returned twice, read once.
C1_Witness ==
    /\ pc = "done" /\ ~ReachableCycle
    /\ p_c \in Targets(p_a) /\ p_c \in Targets(p_b)
    /\ {p_a, p_b} \subseteq Targets(argv.file)
    /\ Len(returned[p_c]) = 2
    /\ reads[p_c] = 1

-----------------------------------------------------------------------------
(* C2 *)

\* C2: a text with exactly one unparseable line yields a Context without an
\* error field that holds every declaration of the other lines; a text that is
\* still unparseable after the reported line is removed yields a Context with
\* only an error field.
C2_FaultTolerance ==
    \A path \in DOMAIN parse_cache :
        LET content == CachedSource(path)
            context == parse_cache[path]
            others == [i \in 1..Len(GoodLines(content)) |-> GoodLines(content)[i].node]
        IN  /\ (~overflowed /\ Cardinality(BadLines(content)) = 1) =>
                /\ ~has_error(context)
                /\ SameDeclarations(context,
                        Declarations(new_definitions(path),
                            SelectSeq(others, LAMBDA n : n.k # "Blank"), 1))
            /\ (~overflowed /\ Unrecoverable(content)) =>
                /\ has_error(context)
                /\ [context EXCEPT !.error = NoKey] = new_definitions(path)

-----------------------------------------------------------------------------
(* C3 *)

\* C3: an import record's resolved_context is None unless the statement is a
\* from-import whose target is an existing file that parses without an
\* unrecoverable error.
C3_ResolvedOnlyWhenParsed ==
    ~overflowed =>
        \A context \in Contexts :
            \A r \in 1..Len(context.imports) :
                LET rec == context.imports[r]
                IN  rec.resolved_context # None =>
                        /\ rec.module # None
                        /\ exists(module_path(<<>>, rec.module))
                        /\ ~Unrecoverable(fs[module_path(<<>>, rec.module)])

-----------------------------------------------------------------------------
(* C4 *)

\* C4: when the run ends, a file whose own text parses (at once, or with one
\* line removed) has a Context without an error field, with all of its own
\* declarations and one import record per import statement, whatever happens to
\* the files it imports; the primary output is an error only for an unparseable entrypoint.
C4_FailureContained ==
    (pc = "done" /\ argv.given) =>
    /\ \A path \in DOMAIN parse_cache :
          ~Unrecoverable(CachedSource(path)) =>
              LET context == parse_cache[path]
                  nodes == ImportNodes(ExtractedBody(CachedSource(path)))
              IN  /\ ~has_error(context)
                  /\ SameDeclarations(context, CachedMembers(path))
                  /\ Len(context.imports) = Len(nodes)
                  /\ \A r \in 1..Len(nodes) : context.imports[r].import = nodes[r].src
    /\ stdout[1][1].l = "Error parsing file" => Unrecoverable(stdin)

-----------------------------------------------------------------------------
(* C5 *)

\* The import statements a frame has processed so far, with their records.
Processed(frame) ==
    {[node |-> ImportNodes(frame.body)[r], rec |-> frame.definitions.imports[r]] :
        r \in 1..Len(frame.definitions.imports)}

\* Every from-import resolved by an active call whose target's Context exists.
Resolutions ==
    {x \in UNION {Processed(stack[d]) : d \in 1..Len(stack)} :
        x.rec.resolved_context # None}

TargetOf(x) == module_path(<<>>, x.node.module)

\* C5: in pruned mode, the resolved_context of `from m import a, b`, for an m
\* that resolved to a Context without error, holds exactly the variables,
\* functions and classes of m named a or b, and an empty import list.
C5_PrunedExact ==
    parsing_mode = "pruned" =>
        \A x \in Resolutions :
            ~has_error(parse_cache[TargetOf(x)]) =>
                LET m == Members(TargetOf(x))
                    names == imported_names(x.node)
                    got == x.rec.resolved_context
                IN  /\ Range(got.variables) = {v \in Range(m.variables) : v.name \in names}
                    /\ Range(got.functions) = {f \in Range(m.functions) : f.name \in names}
                    /\ Range(got.classes) = {c \in Range(m.classes) : c.name \in names}
                    /\ got.imports = <<>>

\* `from a import f, z` against a module that has f, _g, x, _y, K but no z.
C5_Witness ==
    /\ parsing_mode = "pruned"
    /\ \E x \in Resolutions :
          /\ imported_names(x.node) = {n_f, n_z}
          /\ fs[TargetOf(x)] = SrcLib
          /\ Len(x.rec.resolved_context.functions) = 1
          /\ x.rec.resolved_context.variables = <<>>

-----------------------------------------------------------------------------
(* C6 *)

DeclSet(context) ==
    {<<"variable", v>> : v \in Range(context.variables)}
    \cup {<<"function", f>> : f \in Range(context.functions)}
    \cup {<<"class", c>> : c \in Range(context.classes)}

Retained(x, mode) ==
    DeclSet(_prune_context(parse_cache[TargetOf(x)], imported_names(x.node), mode))

IsPrivate(decl) == startswith(decl[2].name, "_")

\* C6 as claimed: what full retains includes what intelligent retains, which
\* includes what pruned retains.
C6_Monotone ==
    \A x \in Resolutions :
        /\ Retained(x, "intelligent") \subseteq Retained(x, "full")
        /\ Retained(x, "pruned") \subseteq Retained(x, "intelligent")

\* C6 amended: full retains what either other mode retains; pruned stays within
\* intelligent except for the imported names that begin with an underscore,
\* which pruned keeps and intelligent drops.
C6_MonotoneUpToPrivate ==
    \A x \in Resolutions :
        /\ Retained(x, "intelligent") \subseteq Retained(x, "full")
        /\ Retained(x, "pruned") \subseteq Retained(x, "full")
        /\ Retained(x, "pruned") \ Retained(x, "intelligent")
              = {d \in Retained(x, "pruned") : IsPrivate(d)}

\* `from a import _g, x` against a module that declares both.
C6_Witness ==
    \E x \in Resolutions :
        /\ imported_names(x.node) = {n_g, n_x}
        /\ \E d \in Retained(x, "pruned") : IsPrivate(d)
        /\ \E d \in Retained(x, "pruned") : ~IsPrivate(d)
        /\ Retained(x, "intelligent") # Retained(x, "full")

-----------------------------------------------------------------------------
(* C7 *)

RECURSIVE HasReturnValue(_)
HasReturnValue(body) ==
    \E i \in 1..Len(body) :
        \/ body[i].k = "Return" /\ body[i].value # None
        \/ body[i].k = "If" /\ HasReturnValue(body[i].body)

LiteralKinds == {"str", "int", "bool", "list", "dict"}

\* The annotation the priority rule gives a function descriptor.
AnnotationByRule(func) ==
    IF func.returns_hint # None THEN <<"->", func.returns_hint.s>>
    ELSE IF func.return_expression = None THEN <<"->", "None">>
    ELSE IF func.return_literal_obj.type \in LiteralKinds
         THEN <<"->", func.return_literal_obj.type>>
    ELSE <<>>

SignatureLines ==
    SelectSeq(stdout[1], LAMBDA ln : ln.l = "def" /\ ln.indent = 0)

\* C7: the annotation on the signature line of every top-level function of the
\* entrypoint is the explicit one, else None when the body has no
\* return-with-value, else the label of the returned literal's own kind, else
\* absent.
C7_ReturnAnnotation ==
    (pc = "done" /\ argv.given /\ ~has_error(main_context)) =>
        LET nodes == SelectSeq(ExtractedBody(stdin), LAMBDA n : n.k = "FunctionDef")
        IN  /\ Len(SignatureLines) = Len(main_context.functions)
            /\ \A i \in 1..Len(SignatureLines) :
                  /\ SignatureLines[i].rt = AnnotationByRule(main_context.functions[i])
                  /\ (nodes[i].returns = None /\ HasReturnValue(nodes[i].body))
                        => SignatureLines[i].rt # <<"->", "None">>

-----------------------------------------------------------------------------
(* C8 *)

\* The records that open a block: they carry a resolved context and no earlier
\* record names the same module.
FirstOfModule(imports) ==
    {i \in 1..Len(imports) :
        /\ imports[i].resolved_context # None
        /\ \A j \in 1..(i - 1) : imports[j].module # imports[i].module}

RECURSIVE InOrder(_, _)
InOrder(imports, idx) ==
    IF idx = {} THEN <<>>
    ELSE <<format_context_as_text(imports[Min(idx)].resolved_context)>>
         \o InOrder(imports, idx \ {Min(idx)})

\* C8: the output is the rendered entrypoint, then (only if a block follows) the
\* banner, then one block per distinct module with a resolved context, in the
\* order of first appearance, each the resolved context of the first record
\* naming the module.
C8_OutputBlocks ==
    (pc = "done" /\ argv.given /\ ~has_error(main_context)) =>
        LET blocks == InOrder(main_context.imports, FirstOfModule(main_context.imports))
        IN  /\ stdout[1] = format_context_as_text(main_context)
            /\ blocks = <<>> => Len(stdout) = 1
            /\ blocks # <<>> =>
                  /\ SubSeq(stdout, 2, 3) = Banner
                  /\ SubSeq(stdout, 4, Len(stdout)) = blocks

\* Three resolved records, two of them naming a: two blocks, a then b.
C8_Witness ==
    /\ pc = "done" /\ argv.given /\ ~has_error(main_context)
    /\ Cardinality({i \in 1..Len(main_context.imports) :
                        main_context.imports[i].resolved_context # None}) = 3
    /\ Len(stdout) = 5
    /\ stdout[4][1].text = "a"
    /\ stdout[5][1].text = "b"
    /\ main_context.imports[2].resolved_context # main_context.imports[4].resolved_context

-----------------------------------------------------------------------------
(* C9 *)

\* A stored Context has a record for every import statement of its file.
Complete(path) ==
    Len(parse_cache[path].imports)
        = Len(ImportNodes(ExtractedBody(CachedSource(path))))

CaughtRecursionError ==
    \E path \in DOMAIN returned :
        \E i \in 1..Len(returned[path]) :
            /\ returned[path][i] # None
            /\ returned[path][i].error = RecursionErrorText

-----------------------------------------------------------------------------
(* C10 *)

\* C10: the cache holds the unpruned Context of a file, and every resolved
\* context equals the pruning of the cached Context of its target by the names
\* of its own statement, on a hit as on a miss; in pruned mode each statement
\* gets only its own names.
C10_PrunedFromUnprunedCache ==
    /\ \A path \in DOMAIN parse_cache :
          ~has_error(parse_cache[path]) =>
              SameDeclarations(parse_cache[path], CachedMembers(path))
    /\ \A x \in Resolutions :
          /\ x.rec.resolved_context =
                _prune_context(parse_cache[TargetOf(x)], imported_names(x.node),
                               parsing_mode)
          /\ parsing_mode = "pruned" =>
                \A d \in DeclSet(x.rec.resolved_context) :
                    d[2].name \in imported_names(x.node)

\* Two statements of one file name the same module with different names; the
\* module was read once and each statement holds its own members.
C10_Witness ==
    /\ parsing_mode = "pruned"
    /\ \E x, y \in Resolutions :
          /\ TargetOf(x) = TargetOf(y)
          /\ imported_names(x.node) # imported_names(y.node)
          /\ DeclSet(x.rec.resolved_context) # {}
          /\ DeclSet(y.rec.resolved_context) # {}
          /\ DeclSet(x.rec.resolved_context) \cap DeclSet(y.rec.resolved_context) = {}
          /\ reads[TargetOf(x)] = 1
          /\ Len(returned[TargetOf(x)]) = 2

====
